---- MODULE Spec2Model ----
(***************************************************************************)
(* A2A task protocol: the in-memory task store, the task lifecycle manager *)
(* (send / get) and the JSON-RPC router in front of it.                    *)
(*                                                                         *)
(* Every handler is an asyncio coroutine.  An action of the model is one   *)
(* run of a coroutine between two suspension points (awaiting the store    *)
(* lock, awaiting the responder).                                          *)
(***************************************************************************)
EXTENDS Integers, Sequences, FiniteSets, TLC

(***************************************************************************)
(* Bounds of the model.                                                    *)
(***************************************************************************)
\* number of requests (HTTP posts and direct manager calls) over a run
MaxRequests == 3
\* largest history limit a get asks for
MaxLimit == 3

\* the request handlers that can be in flight at the same time
Handlers == {"h1", "h2"}
TaskIds == {"t1", "nope"}
SessionIds == {"s1"}
Texts == {"hello", "time?"}
NoHandler == "none"

(***************************************************************************)
(* JSON-RPC message ids: int | str | None, or the key left out of the      *)
(* request body.  "obj" is an id of another JSON type (an object, a list). *)
(***************************************************************************)
IdStr(s) == [kind |-> "str", s |-> s, n |-> 0]
IdNum(n) == [kind |-> "num", s |-> "", n |-> n]
IdNull == [kind |-> "null", s |-> "", n |-> 0]
IdAbsent == [kind |-> "absent", s |-> "", n |-> 0]
IdObj == [kind |-> "obj", s |-> "", n |-> 0]

WireIds == {IdStr("r1"), IdNum(7), IdNull, IdAbsent}
Uuids == {"uuid-a"}

\* id: int | str | None = Field(default_factory=lambda: uuid4().hex)
\* the ids a message model can end up with for the id of the body
JSONRPCMessageId(wireId) ==
    IF wireId.kind = "absent" THEN {IdStr(u) : u \in Uuids}
    ELSE IF wireId.kind \in {"str", "num", "null"} THEN {wireId}
    ELSE {}

(***************************************************************************)
(* Messages and tasks.                                                     *)
(***************************************************************************)
TextPart(text) == [type |-> "text", text |-> text]
Message(role, parts) == [role |-> role, parts |-> parts]
UserMessage(text) == Message("user", <<TextPart(text)>>)

SUBMITTED == "submitted"
WORKING == "working"
COMPLETED == "completed"
FAILED == "failed"
CANCELED == "canceled"
TaskState == {SUBMITTED, WORKING, COMPLETED, FAILED, CANCELED}

Task(id, state, history) == [id |-> id, state |-> state, history |-> history]

\* history limit of a get: historyLength is an int or None
NoLimit == [given |-> FALSE, n |-> 0]
Limit(n) == [given |-> TRUE, n |-> n]
Limits == {NoLimit} \cup {Limit(n) : n \in 0..MaxLimit}

TaskSendParams(id, sessionId, message) ==
    [id |-> id, sessionId |-> sessionId, message |-> message, historyLength |-> NoLimit]
TaskQueryParams(id, historyLength) ==
    [id |-> id, sessionId |-> "", message |-> Message("", <<>>), historyLength |-> historyLength]
NoParams == TaskQueryParams("", NoLimit)

(***************************************************************************)
(* Python values.                                                          *)
(***************************************************************************)
\* seq[start:] for a Python list
PySliceFrom(seq, start) ==
    LET len == Len(seq)
        s0 == IF start < 0 THEN start + len ELSE start
        s1 == IF s0 < 0 THEN 0 ELSE IF s0 > len THEN len ELSE s0
    IN SubSeq(seq, s1 + 1, len)

\* Optional values: None, or a value
PyNone(filler) == [none |-> TRUE, v |-> filler]
Some(x) == [none |-> FALSE, v |-> x]

(***************************************************************************)
(* JSON-RPC models (models/json_rpc.py, models/request.py).                *)
(***************************************************************************)
INTERNAL_ERROR_CODE == -32603

\* a dict offered as the error of a response: the keys it has, and their values
ErrorDict(keys, code, message) == [keys |-> keys, code |-> code, message |-> message]
NoErrorDict == ErrorDict({}, 0, "")

\* JSONRPCError: code and message are required fields, data is optional
JSONRPCErrorValid(d) == {"code", "message"} \subseteq d.keys

\* InternalError(message=...): code defaults to -32603, data to None
InternalError(message) == ErrorDict({"code", "message", "data"}, INTERNAL_ERROR_CODE, message)

\* the task carried by a response: live says that the history is the stored
\* list object itself and not a new list
TaskView(task, live) ==
    [id |-> task.id, state |-> task.state, history |-> task.history, live |-> live]
NoTaskView == TaskView(Task("", "", <<>>), FALSE)

\* what an operation produced: a returned response model, a raised exception,
\* or (for the router) an HTTP response with a JSON body
NoOut ==
    [kind |-> "none", status |-> 0, keys |-> {}, id |-> IdAbsent,
     result |-> PyNone(NoTaskView), error |-> PyNone(NoErrorDict), exc |-> ""]
Raised(exc) == [NoOut EXCEPT !.kind = "raise", !.exc = exc]

\* JSONRPCResponse(id=..., result=..., error=...) and its subclasses
\* SendTaskResponse / GetTaskResponse: construction validates the error
JSONRPCResponse(id, result, error) ==
    IF ~error.none /\ ~JSONRPCErrorValid(error.v)
    THEN Raised("ValidationError")
    ELSE [NoOut EXCEPT !.kind = "return", !.id = id, !.result = result, !.error = error]

\* the keys of model_dump(): every field, or only the fields that are not None
model_dump(resp, exclude_none) ==
    {"jsonrpc"}
    \cup (IF exclude_none /\ resp.id.kind = "null" THEN {} ELSE {"id"})
    \cup (IF exclude_none /\ resp.result.none THEN {} ELSE {"result"})
    \cup (IF exclude_none /\ resp.error.none THEN {} ELSE {"error"})

(***************************************************************************)
(* The task store and the lifecycle manager.                               *)
(***************************************************************************)
\* upsert_task that stores a new task on every call, dropping the old one
upsert_task_overwrites(store, params) ==
    [t \in DOMAIN store \cup {params.id} |->
        IF t = params.id THEN Task(params.id, SUBMITTED, <<params.message>>) ELSE store[t]]

\* upsert_task whose append replaces the newest message
upsert_task_replaces_last(store, params) ==
    IF params.id \notin DOMAIN store
    THEN store @@ (params.id :> Task(params.id, SUBMITTED, <<params.message>>))
    ELSE [store EXCEPT ![params.id].history =
                           Append(SubSeq(@, 1, Len(@) - 1), params.message)]

\* upsert_task that creates the task in the WORKING state
upsert_task_creates_working(store, params) ==
    IF params.id \notin DOMAIN store
    THEN store @@ (params.id :> Task(params.id, WORKING, <<params.message>>))
    ELSE [store EXCEPT ![params.id].history = Append(@, params.message)]

\* upsert_task that reopens an existing task when it appends
upsert_task_reopens(store, params) ==
    IF params.id \notin DOMAIN store
    THEN store @@ (params.id :> Task(params.id, SUBMITTED, <<params.message>>))
    ELSE [store EXCEPT ![params.id].state = WORKING,
                       ![params.id].history = Append(@, params.message)]

\* upsert_task that marks an existing task SUBMITTED again when it appends
upsert_task_resubmits(store, params) ==
    IF params.id \notin DOMAIN store
    THEN store @@ (params.id :> Task(params.id, SUBMITTED, <<params.message>>))
    ELSE [store EXCEPT ![params.id].state = SUBMITTED,
                       ![params.id].history = Append(@, params.message)]

\* upsert_task that creates the task first and leaves the message out
upsert_task_creates_empty(store, params) ==
    IF params.id \notin DOMAIN store
    THEN store @@ (params.id :> Task(params.id, SUBMITTED, <<>>))
    ELSE [store EXCEPT ![params.id].history = Append(@, params.message)]

\* InMemoryTaskManager.upsert_task, the body of the critical section
upsert_task(store, params) ==
    IF params.id \notin DOMAIN store
    THEN store @@ (params.id :> Task(params.id, SUBMITTED, <<params.message>>))
    ELSE [store EXCEPT ![params.id].history = Append(@, params.message)]

\* a query taken from the last part of the message
get_user_query_last_part(request) ==
    request.params.message.parts[Len(request.params.message.parts)].text

\* AgentTaskManager._get_user_query
get_user_query(request) == request.params.message.parts[1].text

\* AgentTaskManager.on_send_task, step 4: the agent's message
agent_message(result_text) == Message("agent", <<TextPart(result_text)>>)

\* a completion write that appends the message and leaves the status alone
completion_write_keeps_status(store, id, message) ==
    [store EXCEPT ![id].history = Append(@, message)]

\* a completion write that puts the agent's message in the newest entry's place
completion_write_replaces_last(store, id, message) ==
    [store EXCEPT ![id].state = COMPLETED,
                  ![id].history = Append(SubSeq(@, 1, Len(@) - 1), message)]

\* a completion write that marks every stored task
completion_write_completes_all(store, id, message) ==
    [t \in DOMAIN store |->
        IF t = id
        THEN [store[t] EXCEPT !.state = COMPLETED, !.history = Append(@, message)]
        ELSE [store[t] EXCEPT !.state = COMPLETED]]

\* a completion write that sets the status and leaves the message out
completion_write_drops_message(store, id, message) ==
    [store EXCEPT ![id].state = COMPLETED]

\* a completion write that puts the agent's message in front
completion_write_prepends(store, id, message) ==
    [store EXCEPT ![id].state = COMPLETED,
                  ![id].history = <<message>> \o @]

\* AgentTaskManager.on_send_task, step 5: the body of the critical section
completion_write(store, id, message) ==
    [store EXCEPT ![id].state = COMPLETED,
                  ![id].history = Append(@, message)]

\* a response built without id=request.id: the id is a new uuid
SendTaskResponse_default_id(request, store) ==
    JSONRPCResponse(CHOOSE i \in JSONRPCMessageId(IdAbsent) : TRUE,
                    Some(TaskView(store[request.params.id], TRUE)),
                    PyNone(NoErrorDict))

\* AgentTaskManager.on_send_task, step 6: result=task is the stored task itself
SendTaskResponse(request, store) ==
    JSONRPCResponse(request.id, Some(TaskView(store[request.params.id], TRUE)),
                    PyNone(NoErrorDict))

\* a get that keeps the first N messages instead of the last N
get_history_first(history, historyLength) ==
    IF historyLength.given
    THEN SubSeq(history, 1, IF historyLength.n < Len(history) THEN historyLength.n ELSE Len(history))
    ELSE history

\* the history a get hands out: task_copy.history[-historyLength:], or the
\* stored list when no limit is given
get_history(history, historyLength) ==
    IF historyLength.given
    THEN PySliceFrom(history, 0 - historyLength.n)
    ELSE history

\* InMemoryTaskManager.on_get_task, the body of the critical section
on_get_task(store, request) ==
    LET query == request.params IN
    IF query.id \notin DOMAIN store
    THEN JSONRPCResponse(request.id, PyNone(NoTaskView),
                         Some(ErrorDict({"message"}, 0, "Task not found")))
    ELSE LET task == store[query.id]
             copy == [task EXCEPT !.history = get_history(task.history, query.historyLength)]
         IN JSONRPCResponse(request.id,
                            Some(TaskView(copy, ~query.historyLength.given)),
                            PyNone(NoErrorDict))

(***************************************************************************)
(* The responder: TellTimeAgent.invoke over one run of the model.          *)
(***************************************************************************)
APOLOGY == "Sorry, I encountered an internal error and couldn't process your request."

\* what Runner.run can do: return a result whose final_output is a text, is
\* empty or is None, or raise an exception
RunOutput(final_output) == [raised |-> FALSE, final_output |-> final_output]
RunRaised == [raised |-> TRUE, final_output |-> PyNone("")]
RunnerOutcomes == {RunOutput(Some("hi there")), RunOutput(Some("")), RunOutput(PyNone("")), RunRaised}

\* invoke that returns str(result.final_output)
invoke_str_of_output(run) ==
    IF run.raised THEN APOLOGY
    ELSE IF run.final_output.none THEN "None" ELSE run.final_output.v

\* invoke that returns the text of the exception
invoke_returns_str_of_exception(run) ==
    IF run.raised THEN "model run failed"
    ELSE IF ~run.final_output.none /\ run.final_output.v # ""
         THEN run.final_output.v
         ELSE ""

\* TellTimeAgent.invoke
invoke(run) ==
    IF run.raised THEN APOLOGY
    ELSE IF ~run.final_output.none /\ run.final_output.v # ""
         THEN run.final_output.v
         ELSE ""

(***************************************************************************)
(* The JSON-RPC router (server/server.py).                                 *)
(***************************************************************************)
\* a request body as posted: json says whether the body is JSON at all and
\* whether it is a JSON object; paramsOk says whether params fits the schema
\* of the method
Body(json, jsonrpc, id, method, paramsOk, params) ==
    [json |-> json, jsonrpc |-> jsonrpc, id |-> id, method |-> method,
     paramsOk |-> paramsOk, params |-> params]

SendBodiesOf(ids, sendTo, sessions, messages) ==
    {Body("object", "2.0", i, "tasks/send", TRUE, TaskSendParams(t, s, m)) :
        i \in ids, t \in sendTo, s \in sessions, m \in messages}
SendBodiesOver(ids, sendTo, texts) ==
    SendBodiesOf(ids, sendTo, SessionIds, {UserMessage(x) : x \in texts})
GetBodiesOver(ids, limits) ==
    {Body("object", "2.0", i, "tasks/get", TRUE, TaskQueryParams(t, hl)) :
        i \in ids, t \in TaskIds, hl \in limits}
NoBody == Body("none", "", IdAbsent, "", FALSE, NoParams)
UndecodableBodies == {Body("invalid", "", IdAbsent, "", FALSE, NoParams)}
InvalidBodies ==
    {Body("array", "", IdAbsent, "", FALSE, NoParams),
     Body("object", "2.0", IdStr("r1"), "tasks/delete", TRUE, TaskQueryParams("t1", NoLimit)),
     Body("object", "2.0", IdStr("r1"), "", TRUE, TaskQueryParams("t1", NoLimit)),
     Body("object", "1.0", IdStr("r1"), "tasks/send", TRUE,
          TaskSendParams("t1", "s1", UserMessage("hello"))),
     Body("object", "2.0", IdObj, "tasks/send", TRUE,
          TaskSendParams("t1", "s1", UserMessage("hello"))),
     Body("object", "2.0", IdNum(7), "tasks/send", FALSE, NoParams),
     Body("object", "2.0", IdStr("r1"), "tasks/get", FALSE, NoParams)}

\* a validated request model
Request(id, method, params) == [id |-> id, method |-> method, params |-> params]
NoCall == Request(IdAbsent, "", NoParams)

\* A2ARequest.validate_python(body): the request models it can yield (the id of
\* a body without one is generated), none when validation fails
validate_python(b) ==
    IF /\ b.json = "object"
       /\ b.jsonrpc = "2.0"
       /\ b.method \in {"tasks/send", "tasks/get"}
       /\ b.paramsOk
    THEN {Request(i, b.method, b.params) : i \in JSONRPCMessageId(b.id)}
    ELSE {}

\* an except branch that logs the exception and raises it again
error_response_reraises(message) == Raised(message)

\* an except branch that leaves the None fields out, as the success path does
error_response_exclude_none(message) ==
    LET resp == JSONRPCResponse(IdNull, PyNone(NoTaskView), Some(InternalError(message)))
    IN [resp EXCEPT !.kind = "http", !.status = 400, !.keys = model_dump(resp, TRUE)]

\* the except branch of _handle_request
error_response(message) ==
    LET resp == JSONRPCResponse(IdNull, PyNone(NoTaskView), Some(InternalError(message)))
    IN [resp EXCEPT !.kind = "http", !.status = 400, !.keys = model_dump(resp, FALSE)]

\* a _create_response that dumps every field, None or not
create_response_keeps_none(result) ==
    IF result.kind = "return"
    THEN [result EXCEPT !.kind = "http", !.status = 200,
                        !.keys = model_dump(result, FALSE),
                        !.result.v.live = FALSE]
    ELSE [Raised("ValueError") EXCEPT !.kind = "http", !.status = 400]

\* A2AServer._create_response: the JSON body is encoded at once, so the task in
\* it is a snapshot
create_response(result) ==
    IF result.kind = "return"
    THEN [result EXCEPT !.kind = "http", !.status = 200,
                        !.keys = model_dump(result, TRUE),
                        !.result.v.live = FALSE]
    ELSE error_response("Invalid response type")

\* step 3 of _handle_request: only a send-task request is handed to the manager
dispatches(request) == request.method = "tasks/send"

\* the arguments of agent.invoke
InvokeArgs(query, session_id) == [query |-> query, session_id |-> session_id]
NoArgs == InvokeArgs("", "")

VARIABLES
    tasks,      \* InMemoryTaskManager.tasks: task id -> Task
    lock,       \* InMemoryTaskManager.lock: the handler holding it, or NoHandler
    pc,         \* where each handler's coroutine is
    body,       \* the request body posted to each handler, NoBody for a direct call
    call,       \* the request each handler is serving
    resultText, \* result_text of a send, once the responder has returned
    out,        \* what the handler's operation produced
    started,    \* number of requests started so far
    upserts,    \* per task id: upsert_task calls that have run
    completions, \* per task id: completion writes that have run
    invokeArgs, \* the arguments of a send's call of agent.invoke, once made
    runResult   \* the outcome of Runner.run inside that call, once it has one

vars == <<tasks, lock, pc, body, call, resultText, out, started, upserts, completions,
          invokeArgs, runResult>>

TypeOK ==
    /\ DOMAIN tasks \subseteq TaskIds
    /\ lock \in Handlers \cup {NoHandler}
    /\ pc \in [Handlers -> {"idle", "upsert_wait", "upsert_cs", "invoke", "complete_wait",
                            "complete_cs", "respond", "get_wait", "get_cs", "done"}]
    /\ started \in 0..MaxRequests

Init ==
    /\ tasks = <<>>
    /\ lock = NoHandler
    /\ pc = [p \in Handlers |-> "idle"]
    /\ body = [p \in Handlers |-> NoBody]
    /\ call = [p \in Handlers |-> NoCall]
    /\ resultText = [p \in Handlers |-> ""]
    /\ out = [p \in Handlers |-> NoOut]
    /\ started = 0
    /\ upserts = [t \in TaskIds |-> 0]
    /\ completions = [t \in TaskIds |-> 0]
    /\ invokeArgs = [p \in Handlers |-> NoArgs]
    /\ runResult = [p \in Handlers |-> <<>>]

\* a suspension point between the completion write and the encoding
Runs_yields(p) == TRUE

\* nothing is awaited between the release of the lock by a completion write and
\* the encoding of the response: no other coroutine runs in between
Runs(p) == \A q \in Handlers : pc[q] = "respond" => q = p

\* _handle_request, a body that request.json() cannot decode
PostUndecodable(p, b) ==
    /\ Runs(p)
    /\ pc[p] = "idle" /\ started < MaxRequests
    /\ b.json = "invalid"
    /\ body' = [body EXCEPT ![p] = b]
    /\ started' = started + 1
    /\ out' = [out EXCEPT ![p] = error_response("JSONDecodeError")]
    /\ pc' = [pc EXCEPT ![p] = "done"]
    /\ UNCHANGED <<tasks, lock, call, resultText, upserts, completions, invokeArgs, runResult>>

\* _handle_request, a body that A2ARequest.validate_python rejects
PostInvalid(p, b) ==
    /\ Runs(p)
    /\ pc[p] = "idle" /\ started < MaxRequests
    /\ b.json # "invalid"
    /\ validate_python(b) = {}
    /\ body' = [body EXCEPT ![p] = b]
    /\ started' = started + 1
    /\ out' = [out EXCEPT ![p] = error_response("ValidationError")]
    /\ pc' = [pc EXCEPT ![p] = "done"]
    /\ UNCHANGED <<tasks, lock, call, resultText, upserts, completions, invokeArgs, runResult>>

\* _handle_request, a valid request that step 3 does not dispatch
PostUnsupported(p, b) ==
    /\ Runs(p)
    /\ pc[p] = "idle" /\ started < MaxRequests
    /\ b.json # "invalid"
    /\ \E request \in validate_python(b) :
        /\ ~dispatches(request)
        /\ call' = [call EXCEPT ![p] = request]
    /\ body' = [body EXCEPT ![p] = b]
    /\ started' = started + 1
    /\ out' = [out EXCEPT ![p] = error_response("Unsupported A2A method")]
    /\ pc' = [pc EXCEPT ![p] = "done"]
    /\ UNCHANGED <<tasks, lock, resultText, upserts, completions, invokeArgs, runResult>>

\* _handle_request, a valid request handed to on_send_task, up to the point
\* where upsert_task waits for the lock
PostSend(p, b) ==
    /\ Runs(p)
    /\ pc[p] = "idle" /\ started < MaxRequests
    /\ b.json # "invalid"
    /\ \E request \in validate_python(b) :
        /\ dispatches(request)
        /\ call' = [call EXCEPT ![p] = request]
    /\ body' = [body EXCEPT ![p] = b]
    /\ started' = started + 1
    /\ pc' = [pc EXCEPT ![p] = "upsert_wait"]
    /\ UNCHANGED <<tasks, lock, resultText, out, upserts, completions, invokeArgs, runResult>>

\* on_get_task called on the manager with a request model, up to the point
\* where it waits for the lock
GetCall(p, request) ==
    /\ Runs(p)
    /\ pc[p] = "idle" /\ started < MaxRequests
    /\ started' = started + 1
    /\ call' = [call EXCEPT ![p] = request]
    /\ pc' = [pc EXCEPT ![p] = "get_wait"]
    /\ UNCHANGED <<body, tasks, lock, resultText, out, upserts, completions, invokeArgs, runResult>>

\* a lock that is handed out while another coroutine holds it
Acquire_ignores_holder(p) ==
    /\ Runs(p)
    /\ pc[p] \in {"upsert_wait", "complete_wait", "get_wait"}
    /\ lock' = p
    /\ pc' = [pc EXCEPT ![p] = CASE pc[p] = "upsert_wait" -> "upsert_cs"
                                 [] pc[p] = "complete_wait" -> "complete_cs"
                                 [] pc[p] = "get_wait" -> "get_cs"]
    /\ UNCHANGED <<body, tasks, call, resultText, out, started, upserts, completions, invokeArgs, runResult>>

\* async with self.lock: entering
Acquire(p) ==
    /\ Runs(p)
    /\ pc[p] \in {"upsert_wait", "complete_wait", "get_wait"}
    /\ lock = NoHandler
    /\ lock' = p
    /\ pc' = [pc EXCEPT ![p] = CASE pc[p] = "upsert_wait" -> "upsert_cs"
                                 [] pc[p] = "complete_wait" -> "complete_cs"
                                 [] pc[p] = "get_wait" -> "get_cs"]
    /\ UNCHANGED <<body, tasks, call, resultText, out, started, upserts, completions, invokeArgs, runResult>>

\* a send that keeps the lock across its responder call
Upsert_holds_lock(p) ==
    /\ Runs(p)
    /\ pc[p] = "upsert_cs" /\ lock = p
    /\ tasks' = upsert_task(tasks, call[p].params)
    /\ upserts' = [upserts EXCEPT ![call[p].params.id] = @ + 1]
    /\ invokeArgs' = [invokeArgs EXCEPT
                         ![p] = InvokeArgs(get_user_query(call[p]), call[p].params.sessionId)]
    /\ pc' = [pc EXCEPT ![p] = "invoke"]
    /\ UNCHANGED <<body, lock, call, resultText, out, started, completions, runResult>>

\* upsert_task under the lock, then on_send_task up to the responder call
Upsert(p) ==
    /\ Runs(p)
    /\ pc[p] = "upsert_cs" /\ lock = p
    /\ tasks' = upsert_task(tasks, call[p].params)
    /\ upserts' = [upserts EXCEPT ![call[p].params.id] = @ + 1]
    /\ lock' = NoHandler
    /\ invokeArgs' = [invokeArgs EXCEPT
                         ![p] = InvokeArgs(get_user_query(call[p]), call[p].params.sessionId)]
    /\ pc' = [pc EXCEPT ![p] = "invoke"]
    /\ UNCHANGED <<body, call, resultText, out, started, completions, runResult>>

\* the responder returns: steps 3 and 4 of on_send_task
ResponderReturns(p, run) ==
    /\ Runs(p)
    /\ pc[p] = "invoke"
    /\ runResult' = [runResult EXCEPT ![p] = <<run>>]
    /\ resultText' = [resultText EXCEPT ![p] = invoke(run)]
    /\ pc' = [pc EXCEPT ![p] = "complete_wait"]
    /\ UNCHANGED <<body, tasks, lock, call, out, started, upserts, completions, invokeArgs>>

\* a manager that takes the user message back when the responder failed
ResponderRaises_rolls_back(p) ==
    /\ Runs(p)
    /\ pc[p] = "invoke"
    /\ tasks' = [tasks EXCEPT ![call[p].params.id].history = SubSeq(@, 1, Len(@) - 1)]
    /\ out' = [out EXCEPT ![p] = error_response("responder failure")]
    /\ pc' = [pc EXCEPT ![p] = "done"]
    /\ UNCHANGED <<body, lock, call, resultText, started, upserts, completions, invokeArgs, runResult>>

\* a manager that drops the task of a send whose responder failed
ResponderRaises_removes_task(p) ==
    /\ Runs(p)
    /\ pc[p] = "invoke"
    /\ tasks' = [t \in DOMAIN tasks \ {call[p].params.id} |-> tasks[t]]
    /\ out' = [out EXCEPT ![p] = error_response("responder failure")]
    /\ pc' = [pc EXCEPT ![p] = "done"]
    /\ UNCHANGED <<body, lock, call, resultText, started, upserts, completions, invokeArgs, runResult>>

\* a manager that catches the responder's failure and marks the task FAILED
ResponderRaises_marks_failed(p) ==
    /\ Runs(p)
    /\ pc[p] = "invoke"
    /\ tasks' = [tasks EXCEPT ![call[p].params.id].state = FAILED]
    /\ out' = [out EXCEPT ![p] = error_response("responder failure")]
    /\ pc' = [pc EXCEPT ![p] = "done"]
    /\ UNCHANGED <<body, lock, call, resultText, started, upserts, completions, invokeArgs, runResult>>

\* the responder raises: on_send_task does not catch, _handle_request does
ResponderRaises(p) ==
    /\ Runs(p)
    /\ pc[p] = "invoke"
    /\ out' = [out EXCEPT ![p] = error_response("responder failure")]
    /\ pc' = [pc EXCEPT ![p] = "done"]
    /\ UNCHANGED <<body, tasks, lock, call, resultText, started, upserts, completions, invokeArgs, runResult>>

\* step 5 of on_send_task: the completion write under the lock
Complete(p) ==
    /\ Runs(p)
    /\ pc[p] = "complete_cs" /\ lock = p
    /\ tasks' = completion_write(tasks, call[p].params.id, agent_message(resultText[p]))
    /\ completions' = [completions EXCEPT ![call[p].params.id] = @ + 1]
    /\ lock' = NoHandler
    /\ pc' = [pc EXCEPT ![p] = "respond"]
    /\ UNCHANGED <<body, call, resultText, out, started, upserts, invokeArgs, runResult>>

\* step 6 of on_send_task and step 4 of _handle_request, after the lock is
\* released: the response is built around the stored task and encoded
Respond(p) ==
    /\ pc[p] = "respond"
    /\ out' = [out EXCEPT ![p] = create_response(SendTaskResponse(call[p], tasks))]
    /\ pc' = [pc EXCEPT ![p] = "done"]
    /\ UNCHANGED <<body, tasks, lock, call, resultText, started, upserts, completions, invokeArgs, runResult>>

\* a get that truncates the stored history instead of the copy's
GetTask_truncates_stored(p) ==
    /\ Runs(p)
    /\ pc[p] = "get_cs" /\ lock = p
    /\ out' = [out EXCEPT ![p] = on_get_task(tasks, call[p])]
    /\ tasks' = IF call[p].params.id \in DOMAIN tasks
                THEN [tasks EXCEPT ![call[p].params.id].history =
                                       get_history(@, call[p].params.historyLength)]
                ELSE tasks
    /\ lock' = NoHandler
    /\ pc' = [pc EXCEPT ![p] = "done"]
    /\ UNCHANGED <<body, call, resultText, started, upserts, completions, invokeArgs, runResult>>

\* a get that returns without leaving its async-with block
GetTask_keeps_lock(p) ==
    /\ Runs(p)
    /\ pc[p] = "get_cs" /\ lock = p
    /\ out' = [out EXCEPT ![p] = on_get_task(tasks, call[p])]
    /\ pc' = [pc EXCEPT ![p] = "done"]
    /\ UNCHANGED <<body, tasks, lock, call, resultText, started, upserts, completions, invokeArgs, runResult>>

\* on_get_task under the lock
GetTask(p) ==
    /\ Runs(p)
    /\ pc[p] = "get_cs" /\ lock = p
    /\ out' = [out EXCEPT ![p] = on_get_task(tasks, call[p])]
    /\ lock' = NoHandler
    /\ pc' = [pc EXCEPT ![p] = "done"]
    /\ UNCHANGED <<body, tasks, call, resultText, started, upserts, completions, invokeArgs, runResult>>

\* the caller has its answer; the handler is free for the next request
Finish(p) ==
    /\ Runs(p)
    /\ pc[p] = "done"
    /\ pc' = [pc EXCEPT ![p] = "idle"]
    /\ body' = [body EXCEPT ![p] = NoBody]
    /\ call' = [call EXCEPT ![p] = NoCall]
    /\ resultText' = [resultText EXCEPT ![p] = ""]
    /\ out' = [out EXCEPT ![p] = NoOut]
    /\ invokeArgs' = [invokeArgs EXCEPT ![p] = NoArgs]
    /\ runResult' = [runResult EXCEPT ![p] = <<>>]
    /\ UNCHANGED <<tasks, lock, started, upserts, completions>>

GetRequestsOver(ids, limits) ==
    {Request(i, "tasks/get", TaskQueryParams(t, hl)) :
        i \in ids, t \in TaskIds, hl \in limits}

\* the steps of the handlers, for requests with the given ids, sends to the
\* given task ids with the given texts, gets with the given history limits
\* and a responder with the given runs
NextOf(ids, sendTo, sessions, messages, limits, runs) ==
    \E p \in Handlers :
        \/ \E b \in UndecodableBodies : PostUndecodable(p, b)
        \/ \E b \in InvalidBodies : PostInvalid(p, b)
        \/ \E b \in GetBodiesOver(ids, {NoLimit, Limit(1)}) : PostUnsupported(p, b)
        \/ \E b \in SendBodiesOf(ids, sendTo, sessions, messages) : PostSend(p, b)
        \/ \E request \in GetRequestsOver(UNION {JSONRPCMessageId(i) : i \in ids}, limits) :
               GetCall(p, request)
        \/ Acquire(p)
        \/ Upsert(p)
        \/ \E run \in runs : ResponderReturns(p, run)
        \/ ResponderRaises(p)
        \/ Complete(p)
        \/ Respond(p)
        \/ GetTask(p)
        \/ Finish(p)

\* the same with messages of a single text part and the one session id
NextOver(ids, sendTo, texts, limits, runs) ==
    NextOf(ids, sendTo, SessionIds, {UserMessage(x) : x \in texts}, limits, runs)

\* sends to one task id with every text, gets of both task ids with every
\* history limit, one request id, a responder that answers with a text or
\* with nothing
Next == NextOver({IdStr("r1")}, {"t1"}, Texts, Limits, {RunOutput(Some("hi there")), RunOutput(PyNone(""))})

\* every kind of request id, sends to both task ids, one text and a responder
\* that answers
NextWire == NextOver(WireIds, TaskIds, {"hello"}, {NoLimit, Limit(1)}, {RunOutput(Some("hi there"))})

\* every outcome of the model run, one request id and one text
NextAgent == NextOver({IdStr("r1")}, {"t1"}, {"time?"}, {NoLimit}, RunnerOutcomes)

Spec == Init /\ [][Next]_vars

SpecWire == Init /\ [][NextWire]_vars

SpecAgent == Init /\ [][NextAgent]_vars

\* one request id, one task id, one text, gets without a limit and a
\* responder that answers
NextLive == NextOver({IdStr("r1")}, {"t1"}, {"hello"}, {NoLimit}, {RunOutput(Some("hi there"))})

\* a message of two text parts and a message of one, two session ids
PartsMessages == {Message("user", <<TextPart("hello"), TextPart("time?")>>), UserMessage("time?")}
NextParts ==
    NextOf({IdStr("r1")}, {"t1"}, {"s1", "s2"}, PartsMessages, {NoLimit},
           {RunOutput(Some("hi there"))})

SpecParts == Init /\ [][NextParts]_vars

\* the role of a posted message is the caller's: one posted as "user", one
\* posted as "agent"
RolesMessages == {UserMessage("hello"), Message("agent", <<TextPart("hello")>>)}
NextRoles ==
    NextOf({IdStr("r1")}, {"t1"}, {"s1"}, RolesMessages, {NoLimit},
           {RunOutput(Some("hi there"))})

SpecRoles == Init /\ [][NextRoles]_vars

\* the event loop resumes every coroutine that is ready to run (weak fairness
\* of the steps that wait for nothing) and asyncio.Lock wakes its waiters in
\* FIFO order, so a waiter is not passed over forever (strong fairness of
\* the acquisition); nothing is assumed of the responder or of the callers
SpecFair ==
    /\ Init /\ [][NextLive]_vars
    /\ \A p \in Handlers :
          /\ SF_vars(Acquire(p))
          /\ WF_vars(Upsert(p))
          /\ WF_vars(Complete(p))
          /\ WF_vars(Respond(p))
          /\ WF_vars(GetTask(p))

(***************************************************************************)
(* Properties.                                                             *)
(***************************************************************************)
SendOn(p, t) == call[p].method = "tasks/send" /\ call[p].params.id = t
AfterUpsert == {"invoke", "complete_wait", "complete_cs"}
Min(a, b) == IF a < b THEN a ELSE b
\* the last k elements of a sequence, in order
LastK(seq, k) == [i \in 1..k |-> seq[Len(seq) - k + i]]
\* handler p takes the step that runs on_get_task on a stored task
GetStepOnStored(p) ==
    /\ pc[p] = "get_cs" /\ pc'[p] = "done"
    /\ call[p].params.id \in DOMAIN tasks

\* C1: the only send on a task id (the id was new, no other send on it) leaves
\* the task SUBMITTED with history [m] between its upsert and its completion
\* write, and COMPLETED with history [m, agent message carrying the reply]
\* once it has completed.
C1_FreshSend ==
    \A p \in Handlers : \A t \in TaskIds :
        (SendOn(p, t) /\ upserts[t] = 1) =>
            LET m == call[p].params.message IN
            /\ pc[p] \in AfterUpsert => tasks[t] = Task(t, SUBMITTED, <<m>>)
            /\ (pc[p] = "done" /\ out[p].status = 200) =>
                   tasks[t] = Task(t, COMPLETED, <<m, agent_message(resultText[p])>>)

C1_Witness ==
    \E p \in Handlers : \E t \in TaskIds :
        /\ SendOn(p, t) /\ upserts[t] = 1
        /\ pc[p] = "done" /\ out[p].status = 200
        /\ resultText[p] = "hi there"
        /\ tasks[t].state = COMPLETED /\ Len(tasks[t].history) = 2

\* C2: on an existing task, the upsert of a send appends exactly one user
\* message (the one of that call), its completion write appends exactly one
\* agent message (the reply of that call), and no other step changes the
\* history: it grows by exactly 2 per completed send, however the sends
\* interleave.
C2_TwoPerSend ==
    [][\A t \in DOMAIN tasks :
        LET ups == {p \in Handlers : pc[p] = "upsert_cs" /\ pc'[p] = "invoke" /\ SendOn(p, t)}
            cps == {p \in Handlers : pc[p] = "complete_cs" /\ pc'[p] = "respond" /\ SendOn(p, t)}
        IN /\ t \in DOMAIN tasks'
           /\ \A p \in ups : tasks'[t].history = Append(tasks[t].history, call[p].params.message)
           /\ \A p \in cps : /\ tasks'[t].history =
                                    Append(tasks[t].history, agent_message(resultText[p]))
                             /\ Len(tasks'[t].history) >= 2
           /\ (ups = {} /\ cps = {}) => tasks'[t].history = tasks[t].history]_vars

C2_Witness ==
    \E t \in DOMAIN tasks :
        /\ completions[t] = 2 /\ upserts[t] = 2
        /\ Len(tasks[t].history) = 4
        /\ \A p \in Handlers : pc[p] \in {"idle", "done"}

\* C3: get for a task id that is not in the store returns an error response
\* (the request id, an error, no result) and does not raise.
C3_GetUnknownReturnsError ==
    \A p \in Handlers :
        (/\ pc[p] = "done" /\ call[p].method = "tasks/get" /\ out[p].kind # "http"
         /\ call[p].params.id \notin DOMAIN tasks) =>
            /\ out[p].kind = "return"
            /\ out[p].id = call[p].id
            /\ ~out[p].error.none
            /\ out[p].result.none

\* C4: get on a stored task with history h returns the last min(N, len(h))
\* messages of h in order for a history limit N >= 1, and all of h when no
\* limit is given.
C4_GetLastN ==
    [][\A p \in Handlers :
        GetStepOnStored(p) =>
            LET h == tasks[call[p].params.id].history
                hl == call[p].params.historyLength
            IN /\ out'[p].kind = "return" /\ ~out'[p].result.none
               /\ (hl.given /\ hl.n >= 1) =>
                      out'[p].result.v.history = LastK(h, Min(hl.n, Len(h)))
               /\ ~hl.given => out'[p].result.v.history = h]_vars

\* a get with limit 1 on a history of 2 or more has returned
C4_Witness ==
    \E p \in Handlers :
        /\ pc[p] = "done" /\ call[p].method = "tasks/get" /\ out[p].kind = "return"
        /\ call[p].params.historyLength = Limit(1)
        /\ ~out[p].result.none
        /\ Len(out[p].result.v.history) = 1
        /\ out[p].result.v.history[1].role = "agent"
        /\ Len(tasks[call[p].params.id].history) >= 2

\* C5: get on a stored task with history limit 0 returns a task whose history
\* is empty.
C5_GetLimitZeroEmpty ==
    [][\A p \in Handlers :
        (GetStepOnStored(p) /\ call[p].params.historyLength = Limit(0)) =>
            out'[p].result.v.history = <<>>]_vars

\* handler p takes the step that handles a posted "tasks/get" body
PostGetStep(p) ==
    /\ pc[p] = "idle" /\ pc'[p] # "idle"
    /\ body'[p].json = "object" /\ body'[p].method = "tasks/get" /\ body'[p].paramsOk
\* the id a JSON body carries: the id key may be left out
WireId(o) == IF "id" \in o.keys THEN o.id ELSE IdAbsent
\* the error envelope of the router: HTTP 400, "id": null, code -32603
IsErrorEnvelope(o) ==
    /\ o.kind = "http" /\ o.status = 400
    /\ "id" \in o.keys /\ o.id = IdNull
    /\ "error" \in o.keys /\ ~o.error.none
    /\ o.error.v.code = -32603
\* what the router cannot decode, validate or dispatch
Undecodable(b) == b.json = "invalid"
Malformed(b) == b.json = "array" \/ b.jsonrpc # "2.0" \/ b.id.kind = "obj"
UnknownMethod(b) == b.method \notin {"tasks/send", "tasks/get"}
SchemaMismatch(b) == ~b.paramsOk
NotDispatched(b) == b.method # "tasks/send"

\* C6: a well-formed "tasks/get" request posted to the router for a task that
\* a preceding send completed is answered with HTTP 200 and a result carrying
\* that task (same id, status COMPLETED, same history).
C6_RouterServesGet ==
    [][\A p \in Handlers :
        LET t == body'[p].params.id IN
        (/\ PostGetStep(p)
         /\ t \in DOMAIN tasks
         /\ tasks[t].state = COMPLETED /\ upserts[t] = completions[t]
         /\ ~body'[p].params.historyLength.given) =>
            /\ out'[p].kind = "http" /\ out'[p].status = 200
            /\ "result" \in out'[p].keys
            /\ out'[p].result = Some(TaskView(tasks[t], FALSE))]_vars

\* C7: a "tasks/get" request posted to the router for an unknown task id is
\* answered with HTTP 200 and an envelope whose error has a "not found"
\* message.
C7_RouterGetUnknown ==
    \A p \in Handlers :
        (/\ pc[p] = "done" /\ body[p].json = "object" /\ body[p].method = "tasks/get"
         /\ body[p].paramsOk /\ body[p].id.kind # "obj"
         /\ body[p].params.id \notin DOMAIN tasks) =>
            /\ out[p].kind = "http" /\ out[p].status = 200
            /\ "error" \in out[p].keys /\ ~out[p].error.none
            /\ out[p].error.v.message = "Task not found"

\* C8: a request the router cannot decode, validate or dispatch, and a request
\* whose dispatch raises, is answered with HTTP 400 and an error envelope
\* whose id is null and whose code is -32603, whatever id the request carried;
\* a request that fails in decoding or validation leaves the store as it was.
C8_ErrorEnvelope ==
    /\ [](\A p \in Handlers :
            (pc[p] = "done" /\ body[p] # NoBody) =>
                /\ out[p].kind = "http"
                /\ (out[p].status # 200) => IsErrorEnvelope(out[p])
                /\ (\/ Undecodable(body[p]) \/ Malformed(body[p]) \/ UnknownMethod(body[p])
                    \/ SchemaMismatch(body[p]) \/ NotDispatched(body[p])) =>
                       IsErrorEnvelope(out[p]))
    /\ [][\A p \in Handlers :
            (pc[p] = "idle" /\ pc'[p] = "done") =>
                /\ tasks' = tasks
                /\ IsErrorEnvelope(out'[p])]_vars

\* a request with a usable id and an unknown method was answered
C8_Witness ==
    \E p \in Handlers :
        /\ pc[p] = "done"
        /\ body[p].method = "tasks/delete" /\ body[p].id = IdStr("r1")
        /\ IsErrorEnvelope(out[p])
        /\ \E q \in Handlers : pc[q] = "done" /\ out[q].status = 400 /\ body[q].method = "tasks/send"
                               /\ body[q].paramsOk /\ call[q].method = "tasks/send"

\* C9 as stated: in every response envelope the router emits, exactly one of
\* the keys result and error is present.
C9_ExactlyOneKey ==
    \A p \in Handlers :
        out[p].kind = "http" => (("result" \in out[p].keys) # ("error" \in out[p].keys))

\* C9, amended: in every response envelope the router emits, exactly one of
\* result and error is not null; on the success path result is the only one
\* of the two keys in the body, on the failure path both keys are in the body
\* and result is null.
C9_ExactlyOneNonNull ==
    \A p \in Handlers :
        out[p].kind = "http" =>
            /\ out[p].result.none # out[p].error.none
            /\ out[p].status \in {200, 400}
            /\ out[p].status = 200 =>
                   /\ ~out[p].result.none
                   /\ out[p].keys \cap {"result", "error"} = {"result"}
            /\ out[p].status = 400 =>
                   /\ out[p].result.none
                   /\ out[p].keys \cap {"result", "error"} = {"result", "error"}

C9_Witness ==
    \E p, q \in Handlers :
        /\ out[p].kind = "http" /\ out[p].status = 400
        /\ "result" \in out[p].keys /\ out[p].result.none
        /\ out[q].kind = "http" /\ out[q].status = 200
        /\ "error" \notin out[q].keys

\* C10 as stated: every response on the success path carries the id of its
\* request verbatim, for a string id, a number id and an absent id alike.
C10_IdEchoed ==
    \A p \in Handlers :
        (out[p].kind = "http" /\ out[p].status = 200
         /\ body[p].id.kind \in {"str", "num", "absent"}) =>
            WireId(out[p]) = body[p].id

\* C10, amended: every response on the success path carries the id of the
\* request model that caused it: a string id and an integer id are echoed
\* verbatim, a request without id gets the uuid generated for its model, and
\* a null id is left out of the response body; a get response of the manager
\* carries the id of its request model.
C10_IdOfRequestModel ==
    \A p \in Handlers :
        /\ (out[p].kind = "http" /\ out[p].status = 200) =>
              /\ body[p].id.kind \in {"str", "num"} => WireId(out[p]) = body[p].id
              /\ body[p].id.kind = "absent" =>
                     /\ WireId(out[p]) \in JSONRPCMessageId(IdAbsent)
                     /\ WireId(out[p]) = call[p].id
              /\ body[p].id.kind = "null" => WireId(out[p]) = IdAbsent
        /\ out[p].kind = "return" => out[p].id = call[p].id

\* two answered sends with different ids, each response with its own id
C10_Witness ==
    \E p, q \in Handlers :
        /\ out[p].kind = "http" /\ out[p].status = 200 /\ body[p].id = IdStr("r1")
        /\ WireId(out[p]) = IdStr("r1")
        /\ out[q].kind = "http" /\ out[q].status = 200 /\ body[q].id = IdNum(7)
        /\ WireId(out[q]) = IdNum(7)

\* a JSON-RPC error envelope on the wire: jsonrpc, and an error object with an
\* int code and a message
IsWireError(o) ==
    /\ o.kind = "http"
    /\ {"jsonrpc", "error"} \subseteq o.keys
    /\ ~o.error.none
    /\ {"code", "message"} \subseteq o.error.v.keys
\* a result envelope: HTTP 200, a result, no error
IsResultEnvelope(o) ==
    /\ o.kind = "http" /\ o.status = 200
    /\ {"jsonrpc", "result"} \subseteq o.keys /\ "error" \notin o.keys
    /\ ~o.result.none /\ o.error.none

\* C11: every POST the router has handled ended in exactly one JSON-RPC
\* response: HTTP 200 with a result envelope when the dispatched send
\* succeeded, and otherwise a wire-shaped error envelope; no failure of
\* decoding, validation, the manager or the responder leaves the router as an
\* exception, and no response exists before the handler ends.
C11_AlwaysAnswered ==
    /\ [](\A p \in Handlers :
            body[p] # NoBody =>
                /\ pc[p] # "done" => out[p] = NoOut
                /\ pc[p] = "done" =>
                       /\ out[p].kind = "http"
                       /\ IsResultEnvelope(out[p]) \/ (IsWireError(out[p]) /\ out[p].status # 200))
    /\ [][\A p \in Handlers :
            /\ (pc[p] = "respond" /\ pc'[p] = "done") =>
                   /\ IsResultEnvelope(out'[p])
                   /\ out'[p].result.v.id = call[p].params.id
            /\ (body'[p] # NoBody /\ pc[p] # "respond" /\ pc[p] # "done" /\ pc'[p] = "done") =>
                   IsWireError(out'[p]) /\ out'[p].status # 200
            /\ (body[p] # NoBody /\ pc[p] = "done" /\ pc'[p] = "done") => out'[p] = out[p]]_vars

\* one send answered with a result, one whose responder raised answered with
\* an error envelope
C11_Witness ==
    \E p, q \in Handlers :
        /\ pc[p] = "done" /\ call[p].method = "tasks/send" /\ IsResultEnvelope(out[p])
        /\ pc[q] = "done" /\ call[q].method = "tasks/send" /\ IsWireError(out[q])
        /\ out[q].status = 400

\* handler p's send has ended in the router's except branch: its responder raised
SendFailed(p) == pc[p] = "done" /\ call[p].method = "tasks/send" /\ out[p].status = 400

\* C12 as stated: after a send whose responder raised, the task is in
\* SUBMITTED state.
C12_LeftSubmitted ==
    \A p \in Handlers :
        SendFailed(p) => tasks[call[p].params.id].state = SUBMITTED

\* C12, amended: a send whose responder raises is answered by the router with
\* the internal-error response and its failure changes no task: the task
\* keeps the status it had (SUBMITTED when this send is the only one on the
\* id, COMPLETED when another send on the id has completed), and no task is
\* ever FAILED.
C12_FailureLeavesStatus ==
    /\ [](\A t \in DOMAIN tasks : tasks[t].state \in {SUBMITTED, COMPLETED})
    /\ [](\A p \in Handlers :
            SendFailed(p) =>
                /\ IsErrorEnvelope(out[p])
                /\ upserts[call[p].params.id] = 1 =>
                       tasks[call[p].params.id] =
                           Task(call[p].params.id, SUBMITTED, <<call[p].params.message>>))
    /\ [][\A p \in Handlers :
            (pc[p] = "invoke" /\ pc'[p] = "done") =>
                /\ tasks' = tasks
                /\ IsErrorEnvelope(out'[p])]_vars

\* the only send on the id failed and the task is SUBMITTED
C12_Witness ==
    \E p \in Handlers :
        /\ SendFailed(p)
        /\ upserts[call[p].params.id] = 1
        /\ tasks[call[p].params.id].state = SUBMITTED

\* C13: the status of a stored task only advances: once a task is COMPLETED
\* no step of any send or get makes it anything else, also not the upsert of
\* a later send on the same id.
C13_StatusMonotonic ==
    [][\A t \in DOMAIN tasks :
        tasks[t].state = COMPLETED => (t \in DOMAIN tasks' /\ tasks'[t].state = COMPLETED)]_vars

\* a COMPLETED task with a later send between its upsert and its completion
C13_Witness ==
    \E p \in Handlers : \E t \in DOMAIN tasks :
        /\ SendOn(p, t) /\ pc[p] \in AfterUpsert
        /\ completions[t] = 1 /\ upserts[t] = 2
        /\ tasks[t].state = COMPLETED

\* C14: every stored task has a non-empty history; its first entry is the
\* user message of the send that created the task, and stays that.
C14_HistoryStartsWithUser ==
    /\ [](\A t \in DOMAIN tasks :
            /\ Len(tasks[t].history) >= 1
            /\ tasks[t].history[1].role = "user")
    /\ [][\A t \in DOMAIN tasks' :
            /\ t \notin DOMAIN tasks =>
                   \E p \in Handlers :
                       /\ pc[p] = "upsert_cs" /\ pc'[p] = "invoke" /\ SendOn(p, t)
                       /\ tasks'[t].history = <<call[p].params.message>>
            /\ t \in DOMAIN tasks => tasks'[t].history[1] = tasks[t].history[1]]_vars

\* a task with several messages whose first is the creating send's
C14_Witness ==
    \E t \in DOMAIN tasks :
        /\ Len(tasks[t].history) = 4
        /\ tasks[t].history[1] = UserMessage("time?")
        /\ tasks[t].history[3] = UserMessage("hello")

IsPrefix(s1, s2) == Len(s1) <= Len(s2) /\ SubSeq(s2, 1, Len(s1)) = s1

\* C15: the stored history is append-only: in every step of every operation
\* the history before the step is a prefix of the history after it.
C15_AppendOnly ==
    [][\A t \in DOMAIN tasks :
        t \in DOMAIN tasks' /\ IsPrefix(tasks[t].history, tasks'[t].history)]_vars

\* a get has handed out a truncated history and the stored one is whole
C15_Witness ==
    \E p \in Handlers : \E t \in DOMAIN tasks :
        /\ pc[p] = "done" /\ call[p].method = "tasks/get" /\ call[p].params.id = t
        /\ out[p].kind = "return" /\ ~out[p].result.none
        /\ Len(out[p].result.v.history) = 1
        /\ Len(tasks[t].history) = 4

InCritical == {"upsert_cs", "complete_cs", "get_cs"}

\* the steps of p that read or write the task mapping or a stored task
StoreStep(p) == pc[p] \in InCritical \cup {"respond"} /\ pc'[p] # pc[p]

\* C16 as stated: every read and every write of the store happens while the
\* operation holds the lock, and at most one operation holds it.
C16_AllAccessUnderLock ==
    [][\A p \in Handlers : StoreStep(p) => lock = p]_vars

\* C16: at most one operation is in a critical section and it is the lock's
\* holder; the upsert, the completion write and the get run while holding
\* the lock, every change of the store is made by the holder, and an upsert
\* is one step of the holder (lookup, then create or append); the one access
\* outside the lock is the encoding of a send's response, which reads the
\* stored task right after the release, before any other operation runs.
C16_WritesUnderLock ==
    /\ [](\A p \in Handlers : pc[p] \in InCritical <=> lock = p)
    /\ [][\A p \in Handlers :
            (pc[p] \in InCritical /\ pc'[p] # pc[p]) => (lock = p /\ lock' = NoHandler)]_vars
    /\ [][tasks' # tasks =>
            \E p \in Handlers :
                /\ lock = p /\ pc[p] \in {"upsert_cs", "complete_cs"} /\ pc'[p] # pc[p]
                /\ pc[p] = "upsert_cs" => tasks' = upsert_task(tasks, call[p].params)]_vars
    /\ [][\A p \in Handlers :
            pc[p] = "respond" =>
                /\ lock = NoHandler /\ pc'[p] = "done" /\ tasks' = tasks
                /\ \A q \in Handlers \ {p} : pc'[q] = pc[q]]_vars

\* one send is inside its upsert while a get on the same task waits
C16_Witness ==
    \E p, q \in Handlers :
        /\ p # q
        /\ pc[p] = "upsert_cs" /\ lock = p
        /\ pc[q] = "get_wait" /\ call[q].params.id = call[p].params.id
        /\ call[p].params.id \in DOMAIN tasks

\* what the holder of a returned task sees in it: model_copy is shallow, so a
\* live view's history is the stored list itself; the status is the copy's own
ObservedTask(view, store) ==
    [state |-> view.state,
     history |-> IF view.live THEN store[view.id].history ELSE view.history]

GotTask(p) ==
    /\ pc[p] = "done" /\ call[p].method = "tasks/get"
    /\ out[p].kind = "return" /\ ~out[p].result.none

\* C17: the value a get returned is a copy: no later step of a send changes
\* the status or the history seen in it, with a history limit and without.
C17_GetReturnsIsolatedCopy ==
    [][\A p \in Handlers :
        (GotTask(p) /\ pc'[p] = "done") =>
            ObservedTask(out'[p].result.v, tasks') = ObservedTask(out[p].result.v, tasks)]_vars

\* C18: a send does not hold the lock during its responder call, so sends on
\* one task id overlap there; each completion write appends its reply after
\* everything appended before it and sets COMPLETED, so the replies stand in
\* the order of re-acquisition and the last one to re-acquire writes last.
C18_ResponderOutsideLock ==
    /\ [](\A p \in Handlers : pc[p] \in {"invoke", "complete_wait"} => lock # p)
    /\ [][\A p \in Handlers :
            (pc[p] = "complete_cs" /\ pc'[p] # pc[p]) =>
                LET t == call[p].params.id IN
                /\ tasks'[t].history =
                       Append(tasks[t].history, agent_message(resultText[p]))
                /\ tasks'[t].state = COMPLETED]_vars

\* two sends on one id, answered in the reverse order of their user messages
C18_Witness ==
    \E p, q \in Handlers : \E t \in DOMAIN tasks :
        /\ p # q /\ SendOn(p, t) /\ SendOn(q, t)
        /\ pc[p] = "done" /\ pc[q] = "done"
        /\ resultText[p] # resultText[q]
        /\ tasks[t].state = COMPLETED
        /\ tasks[t].history = <<call[p].params.message, call[q].params.message,
                                agent_message(resultText[q]), agent_message(resultText[p])>>

\* C19: an operation that finds the lock held waits and gets it: every
\* waiting upsert reaches its responder call, every waiting get returns, and
\* every send whose responder has returned writes COMPLETED and returns a
\* result; a wait never ends in an error outcome.
C19_WaitersFinish ==
    \A p \in Handlers :
        /\ (pc[p] = "upsert_wait") ~> (pc[p] = "invoke")
        /\ (pc[p] = "get_wait") ~> (pc[p] = "done" /\ call[p].method = "tasks/get")
        /\ (pc[p] = "get_wait" /\ call[p].params.id \in DOMAIN tasks)
               ~> (pc[p] = "done" /\ out[p].kind = "return" /\ ~out[p].result.none)
        /\ (pc[p] = "complete_wait")
               ~> (/\ pc[p] = "done" /\ IsResultEnvelope(out[p])
                   /\ out[p].result.v.state = COMPLETED
                   /\ tasks[call[p].params.id].state = COMPLETED)

\* a send whose responder has returned finds the lock held by a get
C19_Witness ==
    \E p, q \in Handlers :
        /\ pc[p] = "complete_wait"
        /\ lock = q /\ pc[q] = "get_cs"

\* C20: no step removes a task: an id in the store stays in the store, for
\* every step of every send and get, also of a send that fails.
C20_NoDeletion ==
    [][DOMAIN tasks \subseteq DOMAIN tasks']_vars

\* a task whose sends have failed or not completed is in the store
C20_Witness ==
    \E p \in Handlers :
        /\ SendFailed(p)
        /\ call[p].params.id \in DOMAIN tasks
        /\ upserts[call[p].params.id] = 2
        /\ completions[call[p].params.id] = 0

InSend(p) == call[p].method = "tasks/send" /\ pc[p] \in AfterUpsert \cup {"respond", "done"}

\* C24: the query a send passes to the responder is the text of the first
\* part of the message posted in that call, with that call's session id, and
\* is not taken from the stored history, also when sends on one id interleave.
C24_QueryOfOwnCall ==
    \A p \in Handlers :
        InSend(p) =>
            invokeArgs[p] = InvokeArgs(body[p].params.message.parts[1].text,
                                       body[p].params.sessionId)

\* two sends on one id are in their responder calls with different queries
\* and session ids, and the newest stored message is not the first one's
C24_Witness ==
    \E p, q \in Handlers : \E t \in DOMAIN tasks :
        /\ SendOn(p, t) /\ SendOn(q, t)
        /\ pc[p] = "invoke" /\ pc[q] = "invoke"
        /\ invokeArgs[p] = InvokeArgs("hello", "s1")
        /\ invokeArgs[q] = InvokeArgs("time?", "s2")
        /\ Len(body[p].params.message.parts) = 2
        /\ tasks[t].history[Len(tasks[t].history)] = call[q].params.message

\* C21: every stored task is SUBMITTED or COMPLETED; a task is created
\* SUBMITTED and the only change of a status is from SUBMITTED to COMPLETED
\* (or COMPLETED written again); WORKING, FAILED and CANCELED never occur.
C21_OnlySubmittedToCompleted ==
    /\ [](\A t \in DOMAIN tasks : tasks[t].state \in {SUBMITTED, COMPLETED})
    /\ [][\A t \in DOMAIN tasks' :
            /\ t \notin DOMAIN tasks => tasks'[t].state = SUBMITTED
            /\ (t \in DOMAIN tasks /\ tasks'[t].state # tasks[t].state) =>
                   (tasks[t].state = SUBMITTED /\ tasks'[t].state = COMPLETED)]_vars

\* a task that was completed twice, by two sends
C21_Witness ==
    \E t \in DOMAIN tasks : tasks[t].state = COMPLETED /\ completions[t] = 2

HasAgentMessage(history) == \E i \in 1..Len(history) : history[i].role = "agent"

\* C22: status and agent message are written in one critical section: a
\* stored task that is COMPLETED has an agent message in its history, and so
\* has every COMPLETED task that a get without a history limit returns.
C22_CompletedHasReply ==
    /\ \A t \in DOMAIN tasks :
           tasks[t].state = COMPLETED <=> HasAgentMessage(tasks[t].history)
    /\ \A p \in Handlers :
           (GotTask(p) /\ ~call[p].params.historyLength.given) =>
               LET seen == ObservedTask(out[p].result.v, tasks) IN
               /\ out[p].result.v.state = COMPLETED
                      <=> HasAgentMessage(out[p].result.v.history)
               /\ seen.state = COMPLETED => HasAgentMessage(seen.history)

\* a get that ran between two completion writes returned a COMPLETED task
C22_Witness ==
    \E p, q \in Handlers :
        /\ GotTask(p) /\ ~call[p].params.historyLength.given
        /\ out[p].result.v.state = COMPLETED
        /\ SendOn(q, call[p].params.id) /\ pc[q] = "complete_wait"

Count(history, message) == Cardinality({i \in 1..Len(history) : history[i] = message})
CountRole(history, role) == Cardinality({i \in 1..Len(history) : history[i].role = role})

\* C25: a responder call that never returns holds no lock and blocks only
\* its own send: while it lasts every other waiting upsert, get and
\* completion write still finishes, and a get that runs meanwhile returns
\* the task with the call's user message and without a reply to it (for a
\* task that this send created: SUBMITTED with that one message).
C25_StuckResponderBlocksOnlyItself ==
    /\ [](\A p \in Handlers : pc[p] = "invoke" => (lock # p /\ runResult[p] = <<>>))
    /\ [][\A p, q \in Handlers :
            (/\ p # q /\ pc[p] = "invoke" /\ pc'[p] = "invoke"
             /\ pc[q] = "get_cs" /\ pc'[q] = "done"
             /\ call[q].params.id = call[p].params.id) =>
                LET t == call[p].params.id
                    got == out'[q].result.v
                IN /\ out'[q].kind = "return" /\ ~out'[q].result.none
                   /\ Count(got.history, call[p].params.message) >= 1
                   /\ CountRole(got.history, "agent") = completions[t]
                   /\ CountRole(got.history, "user") = upserts[t]
                   /\ (upserts[t] = 1) =>
                          (got.state = SUBMITTED /\ got.history = <<call[p].params.message>>)]_vars
    /\ \A p, q \in Handlers :
          (p # q) =>
              (<>[](pc[p] = "invoke") =>
                  /\ (pc[q] = "get_wait") ~> (pc[q] = "done")
                  /\ (pc[q] = "upsert_wait") ~> (pc[q] = "invoke")
                  /\ (pc[q] = "complete_wait") ~> (pc[q] = "done" /\ out[q].status = 200))

\* while a send is in its responder call, a get has returned its new task
C25_Witness ==
    \E p, q \in Handlers :
        /\ p # q /\ pc[p] = "invoke"
        /\ GotTask(q) /\ call[q].params.id = call[p].params.id
        /\ upserts[call[p].params.id] = 1
        /\ out[q].result.v.state = SUBMITTED
        /\ out[q].result.v.history = <<call[p].params.message>>

\* C26: an upsert on a stored id appends the message and changes nothing
\* else of the task; a COMPLETED task stays COMPLETED, and a get then returns
\* the task as COMPLETED with the unanswered user message last.
C26_UpsertOnlyAppends ==
    /\ [][\A p \in Handlers :
            (pc[p] = "upsert_cs" /\ pc'[p] # pc[p] /\ call[p].params.id \in DOMAIN tasks) =>
                LET t == call[p].params.id IN
                /\ tasks' = [tasks EXCEPT ![t].history = Append(@, call[p].params.message)]
                /\ tasks'[t].state = tasks[t].state]_vars
    /\ [][\A p \in Handlers :
            (pc[p] = "get_cs" /\ pc'[p] # pc[p] /\ call[p].params.id \in DOMAIN tasks
                 /\ ~call[p].params.historyLength.given) =>
                /\ out'[p].result.v.state = tasks[call[p].params.id].state
                /\ out'[p].result.v.history = tasks[call[p].params.id].history]_vars

\* a get returned a COMPLETED task whose last message is an unanswered user's
C26_Witness ==
    \E p, q \in Handlers :
        /\ GotTask(p) /\ ~call[p].params.historyLength.given
        /\ out[p].result.v.state = COMPLETED
        /\ SendOn(q, call[p].params.id) /\ pc[q] = "invoke"
        /\ out[p].result.v.history[Len(out[p].result.v.history)] = call[q].params.message
        /\ Len(out[p].result.v.history) = 3

\* C23: the response of a successful send carries the stored task after the
\* call's own completion write: its status is COMPLETED and the last entry of
\* its history is the agent message this call built, also while other sends
\* on the same id are in flight.
C23_ResponseSeesOwnWrite ==
    \A p \in Handlers :
        (pc[p] = "done" /\ call[p].method = "tasks/send" /\ out[p].status = 200) =>
            LET task == out[p].result.v IN
            /\ IsResultEnvelope(out[p])
            /\ task.id = call[p].params.id
            /\ task.state = COMPLETED
            /\ task.history[Len(task.history)] = agent_message(resultText[p])

\* a send has answered while another send on the same id, whose reply will
\* differ, waits to write its own
C23_Witness ==
    \E p, q \in Handlers : \E t \in DOMAIN tasks :
        /\ p # q /\ SendOn(p, t) /\ SendOn(q, t)
        /\ pc[p] = "done" /\ out[p].status = 200
        /\ pc[q] = "complete_wait" /\ resultText[q] # resultText[p]
        /\ Len(out[p].result.v.history) = 3

Replied(p) == call[p].method = "tasks/send" /\ runResult[p] # <<>>

\* C27: the agent message of a send has the role "agent" and one text part
\* with the responder's reply, the empty string when the model run produced
\* no output; a run without output does not make the send fail.
C27_AgentMessageOfReply ==
    /\ \A t \in DOMAIN tasks : \A i \in 1..Len(tasks[t].history) :
           tasks[t].history[i].role = "agent" => Len(tasks[t].history[i].parts) = 1
    /\ \A p \in Handlers :
           (Replied(p) /\ ~runResult[p][1].raised) =>
               LET final_output == runResult[p][1].final_output
                   reply == IF final_output.none \/ final_output.v = "" THEN ""
                            ELSE final_output.v
               IN /\ resultText[p] = reply
                  /\ pc[p] \in {"respond", "done"} =>
                         \E i \in 1..Len(tasks[call[p].params.id].history) :
                             tasks[call[p].params.id].history[i] =
                                 Message("agent", <<TextPart(reply)>>)
                  /\ pc[p] = "done" =>
                         /\ IsResultEnvelope(out[p])
                         /\ out[p].result.v.history[Len(out[p].result.v.history)] =
                                Message("agent", <<TextPart(reply)>>)

\* a send whose model run had no output has answered with an empty reply
C27_Witness ==
    \E p \in Handlers :
        /\ Replied(p) /\ runResult[p][1] = RunOutput(PyNone(""))
        /\ pc[p] = "done" /\ IsResultEnvelope(out[p])
        /\ out[p].result.v.history[Len(out[p].result.v.history)] =
               Message("agent", <<TextPart("")>>)

\* C28: a failure of the model run stays inside invoke, which returns the
\* fixed apology: the send goes on, the task becomes COMPLETED with the
\* apology as the agent's reply and the client gets a result envelope.
C28_RunFailureBecomesApology ==
    \A p \in Handlers :
        (Replied(p) /\ runResult[p][1].raised) =>
            /\ resultText[p] = APOLOGY
            /\ pc[p] \in {"complete_wait", "complete_cs", "respond", "done"}
            /\ pc[p] \in {"respond", "done"} =>
                   /\ tasks[call[p].params.id].state = COMPLETED
                   /\ \E i \in 1..Len(tasks[call[p].params.id].history) :
                          tasks[call[p].params.id].history[i] = agent_message(APOLOGY)
            /\ pc[p] = "done" =>
                   /\ IsResultEnvelope(out[p])
                   /\ out[p].result.v.state = COMPLETED
                   /\ out[p].result.v.history[Len(out[p].result.v.history)] =
                          agent_message(APOLOGY)

\* a send whose model run failed has answered with the apology
C28_Witness ==
    \E p \in Handlers :
        /\ Replied(p) /\ runResult[p][1] = RunRaised
        /\ pc[p] = "done" /\ out[p].status = 200
        /\ tasks[call[p].params.id].state = COMPLETED

\* C29: a send whose responder call raises is not rolled back: the failing
\* step changes no task, the send's user message stays in the history, no
\* agent message is appended for it (agent messages are as many as the
\* completion writes of the sends that returned), and the status is unchanged.
C29_FailedSendNotRolledBack ==
    /\ [](\A t \in DOMAIN tasks :
            /\ CountRole(tasks[t].history, "user") = upserts[t]
            /\ CountRole(tasks[t].history, "agent") = completions[t])
    /\ [](\A p \in Handlers :
            SendFailed(p) =>
                /\ runResult[p] = <<>>
                /\ call[p].params.id \in DOMAIN tasks
                /\ Count(tasks[call[p].params.id].history, call[p].params.message) >= 1)
    /\ [][\A p \in Handlers :
            (pc[p] = "invoke" /\ pc'[p] = "done") =>
                /\ tasks' = tasks
                /\ completions' = completions]_vars

\* the only send on a task has failed: its message is the whole history
C29_Witness ==
    \E p \in Handlers :
        /\ SendFailed(p)
        /\ tasks[call[p].params.id] =
               Task(call[p].params.id, SUBMITTED, <<call[p].params.message>>)
        /\ \A q \in Handlers \ {p} : pc[q] = "idle"

BothSend(p, q, t) == p # q /\ SendOn(p, t) /\ SendOn(q, t) /\ upserts[t] = 2

\* C30: two concurrent sends on a new task id create one record: the first
\* upsert creates it, the second appends, so both user messages are in the
\* history, and once both have completed both agent replies are as well.
C30_OneRecordForTwoSends ==
    \A p, q \in Handlers : \A t \in TaskIds :
        (BothSend(p, q, t) /\ pc[p] \in AfterUpsert \cup {"respond", "done"}
                           /\ pc[q] \in AfterUpsert \cup {"respond", "done"}) =>
            LET history == tasks[t].history IN
            /\ t \in DOMAIN tasks /\ tasks[t].id = t
            /\ Len(history) = 2 + completions[t]
            /\ history[1] \in {call[p].params.message, call[q].params.message}
            /\ CountRole(history, "user") = 2
            /\ Count(history, call[p].params.message) + Count(history, call[q].params.message)
                   = IF call[p].params.message = call[q].params.message THEN 4 ELSE 2
            /\ (pc[p] = "done" /\ pc[q] = "done" /\ out[p].status = 200 /\ out[q].status = 200) =>
                   /\ Len(history) = 4
                   /\ CountRole(history, "agent") = 2
                   /\ Count(history, agent_message(resultText[p]))
                          + Count(history, agent_message(resultText[q]))
                          = IF resultText[p] = resultText[q] THEN 4 ELSE 2

\* both sends have answered; the task holds two user messages and two replies
C30_Witness ==
    \E p, q \in Handlers : \E t \in DOMAIN tasks :
        /\ BothSend(p, q, t)
        /\ pc[p] = "done" /\ pc[q] = "done" /\ out[p].status = 200 /\ out[q].status = 200
        /\ call[p].params.message # call[q].params.message
        /\ tasks[t].history = <<call[p].params.message, call[q].params.message,
                                agent_message(resultText[p]), agent_message(resultText[q])>>

\* C31 as stated: per task, the agent messages are as many as the completion
\* writes and the user messages as many as the upserts, so agent messages
\* never outnumber user messages.
C31_CountsByRole ==
    \A t \in DOMAIN tasks :
        /\ CountRole(tasks[t].history, "agent") = completions[t]
        /\ CountRole(tasks[t].history, "user") = upserts[t]
        /\ CountRole(tasks[t].history, "agent") <= CountRole(tasks[t].history, "user")

\* C31: per task, the history holds one message for each upsert and one for
\* each completion write, completion writes never outnumber upserts, and a
\* call's reply is appended after that call's message; the messages of the
\* upserts carry the role their callers posted, so at least as many messages
\* have the role "agent" as there were completion writes.
C31_CountsByWrite ==
    /\ [](\A t \in DOMAIN tasks :
            /\ Len(tasks[t].history) = upserts[t] + completions[t]
            /\ completions[t] <= upserts[t]
            /\ CountRole(tasks[t].history, "agent") >= completions[t]
            /\ CountRole(tasks[t].history, "user") <= upserts[t]
            /\ CountRole(tasks[t].history, "user") + CountRole(tasks[t].history, "agent")
                   = Len(tasks[t].history))
    /\ [][\A p \in Handlers :
            (pc[p] = "complete_cs" /\ pc'[p] # pc[p]) =>
                LET t == call[p].params.id IN
                /\ Count(tasks[t].history, call[p].params.message) >= 1
                /\ tasks'[t].history = Append(tasks[t].history, agent_message(resultText[p]))
                /\ completions'[t] = completions[t] + 1]_vars

\* a send whose posted message had the role "agent" has been answered
C31_Witness ==
    \E p \in Handlers :
        /\ pc[p] = "done" /\ call[p].method = "tasks/send" /\ out[p].status = 200
        /\ call[p].params.message.role = "agent"
        /\ completions[call[p].params.id] = 1
        /\ CountRole(tasks[call[p].params.id].history, "agent") = 2

WriterOf(p, t) == pc[p] \in {"upsert_cs", "complete_cs"} /\ pc'[p] # pc[p] /\ call[p].params.id = t

\* C32: tasks are isolated by id: a stored task changes only in the upsert
\* or the completion write of a send on its own id; no step of a send or a
\* get on another id changes its status or history, or removes it.
C32_IsolatedById ==
    [][\A t \in DOMAIN tasks :
        /\ t \in DOMAIN tasks'
        /\ tasks'[t] # tasks[t] => \E p \in Handlers : WriterOf(p, t)
        /\ \A p \in Handlers :
               (pc'[p] # pc[p] /\ call[p].method # "" /\ call[p].params.id # t) =>
                   tasks'[t] = tasks[t]]_vars

\* two tasks are stored and differ in status and history
C32_Witness ==
    \E p \in Handlers :
        /\ DOMAIN tasks = TaskIds
        /\ tasks["t1"].state = COMPLETED /\ Len(tasks["t1"].history) = 2
        /\ tasks["nope"].state = SUBMITTED /\ Len(tasks["nope"].history) = 1
        /\ SendOn(p, "nope") /\ pc[p] = "complete_cs"

GetStep(p) ==
    /\ pc'[p] # pc[p]
    /\ call[p].method = "tasks/get" \/ call'[p].method = "tasks/get"

\* C33: get is read-only: no step of a get, for a stored id or a missing one
\* and for any history limit, changes the stored ids or any stored task; a
\* history limit shortens the returned history only.
C33_GetReadOnly ==
    [][\A p \in Handlers :
        GetStep(p) =>
            /\ tasks' = tasks
            /\ upserts' = upserts /\ completions' = completions
            /\ (pc[p] = "get_cs" /\ call[p].params.id \in DOMAIN tasks) =>
                   LET stored == tasks'[call[p].params.id].history
                       got == out'[p].result.v.history
                       limit == call[p].params.historyLength
                   IN Len(got) = IF limit.given /\ 0 < limit.n /\ limit.n < Len(stored)
                                 THEN limit.n ELSE Len(stored)]_vars

\* a get with a limit returned one message of a stored history of two
C33_Witness ==
    \E p \in Handlers :
        /\ GotTask(p)
        /\ call[p].params.historyLength = Limit(1)
        /\ Len(out[p].result.v.history) = 1
        /\ Len(tasks[call[p].params.id].history) = 2

====
